---- MODULE Spec2Model ----
(***************************************************************************)
(* Van Bill Manager: the React application (working table, entry form,     *)
(* template store over localStorage) and its service worker (install,      *)
(* activate, fetch over CacheStorage).                                     *)
(*                                                                         *)
(* A JavaScript string is a sequence of one-character strings, so that     *)
(* trim(), JSON.stringify and JSON.parse are computed character by         *)
(* character.  A nullable string (the result of prompt() and of            *)
(* localStorage.getItem) is a record [isNull, s].                          *)
(***************************************************************************)
EXTENDS Integers, Sequences, FiniteSets, TLC

VARIABLES
    app,            \* "init" (constructed, effect pending), "running", "crashed"
    rows,           \* useState<RowData[]>: the working table
    form,           \* the New Entry form: newVan, tHour, tMin, tAmPm, newEWaybill, newInvoice
    templates,      \* useState<Template[]>
    localStorage,   \* the origin's key -> string storage
    nextId,         \* number of tokens crypto.randomUUID() has handed out
    lastOp,         \* outcome of the last handler that ran
    lastPrompt,     \* what prompt() returned to the last handleSaveTemplate
    lastSaved,      \* the template the last successful save persisted (<<>> if none)
    alertShown,     \* the alert() the last handler raised, "none" if it raised none
    isLoading,      \* useState<boolean>: the share button is disabled while it is true
    isExporting,    \* useState<boolean>: the capture area is laid out for the export
    exports,        \* the image exports handleShare has started, in order
    swState,        \* lifecycle state of the service worker
    cacheStorage,   \* CacheStorage: sequence of [name, entries], in creation order
    installPc,      \* position of the install handler's promise chain
    activatePc,     \* position of the activate handler's promise chain
    cacheNames,     \* what caches.keys() resolved with in the activate handler
    pendingDeletes, \* caches.delete() calls of activate that have not settled
    claimed,        \* self.clients.claim() has been called
    swLog,          \* console.error calls of the worker
    fetches         \* the fetch interceptions, in the order of their events

appVars == <<app, rows, form, templates, localStorage, nextId, lastOp, lastPrompt,
             lastSaved, alertShown>>
shareVars == <<isLoading, isExporting, exports>>
swVars == <<swState, cacheStorage, installPc, activatePc, cacheNames, pendingDeletes, claimed,
           swLog, fetches>>
vars == <<app, rows, form, templates, localStorage, nextId, lastOp, lastPrompt,
          lastSaved, alertShown,
          isLoading, isExporting, exports,
          swState, cacheStorage, installPc, activatePc, cacheNames, pendingDeletes, claimed,
          swLog, fetches>>

----------------------------------------------------------------------------
(* Bounds *)

MaxRows == 2        \* rows the working table may hold
MaxId == 3          \* tokens crypto.randomUUID() may hand out
MaxFetches == 2     \* fetch events the worker receives
MaxExports == 2     \* image exports the user starts

----------------------------------------------------------------------------
(* Strings *)

SP == " "
QT == "\""
BS == "\\"

WhiteSpace == {SP}

Str(s) == [isNull |-> FALSE, s |-> s]
Null == [isNull |-> TRUE, s |-> <<>>]

\* JavaScript truthiness of a nullable string: null and "" are falsy.
Truthy(x) == ~x.isNull /\ x.s # <<>>

RECURSIVE TrimStart(_)
TrimStart(s) ==
    IF s # <<>> /\ Head(s) \in WhiteSpace THEN TrimStart(Tail(s)) ELSE s

RECURSIVE TrimEnd(_)
TrimEnd(s) ==
    IF s # <<>> /\ s[Len(s)] \in WhiteSpace THEN TrimEnd(SubSeq(s, 1, Len(s) - 1)) ELSE s

Trim(s) == TrimEnd(TrimStart(s))

RECURSIVE Concat(_)
Concat(ss) == IF ss = <<>> THEN <<>> ELSE Head(ss) \o Concat(Tail(ss))

Range(s) == {s[i] : i \in 1..Len(s)}

----------------------------------------------------------------------------
(* JSON.stringify of a Template[] and JSON.parse, character by character *)

KeyName == <<"n", "a", "m", "e">>
KeyVans == <<"v", "a", "n", "s">>
Digits == {"0", "1", "2", "3", "4", "5", "6", "7", "8", "9"}

\* Variant: no character is escaped.
EscapeNothing(c) == <<c>>

\* JSON.stringify escapes the double quote and the backslash inside a string.
EscapeChar(c) ==
    IF c = QT THEN <<BS, QT>> ELSE IF c = BS THEN <<BS, BS>> ELSE <<c>>

QuoteString(s) == <<QT>> \o Concat([i \in 1..Len(s) |-> EscapeChar(s[i])]) \o <<QT>>

RECURSIVE JoinComma(_)
JoinComma(ss) ==
    IF ss = <<>> THEN <<>>
    ELSE IF Len(ss) = 1 THEN ss[1]
    ELSE ss[1] \o <<",">> \o JoinComma(Tail(ss))

StringifyVans(vans) == <<"[">> \o JoinComma([i \in 1..Len(vans) |-> QuoteString(vans[i])]) \o <<"]">>

StringifyTemplate(t) ==
    <<"{">> \o QuoteString(KeyName) \o <<":">> \o QuoteString(t.name) \o <<",">>
            \o QuoteString(KeyVans) \o <<":">> \o StringifyVans(t.vans) \o <<"}">>

\* Variant: whatever the collection, the text of the empty one.
JSONstringifyNothing(ts) == <<"[", "]">>

JSONstringify(ts) == <<"[">> \o JoinComma([i \in 1..Len(ts) |-> StringifyTemplate(ts[i])]) \o <<"]">>

\* A parsed JSON value.  Every value has the same fields; a kind uses its own.
JsNull == [k |-> "null", s |-> <<>>, keys |-> <<>>, items |-> <<>>]
JsNum(d) == [k |-> "number", s |-> d, keys |-> <<>>, items |-> <<>>]
JsStr(s) == [k |-> "string", s |-> s, keys |-> <<>>, items |-> <<>>]
JsArr(items) == [k |-> "array", s |-> <<>>, keys |-> <<>>, items |-> items]
JsObj(keys, items) == [k |-> "object", s |-> <<>>, keys |-> keys, items |-> items]

ParseFail == [ok |-> FALSE, v |-> JsNull, i |-> 0]
ParseOk(v, i) == [ok |-> TRUE, v |-> v, i |-> i]

At(t, i) == IF i >= 1 /\ i <= Len(t) THEN t[i] ELSE "<eof>"

RECURSIVE ParseStringBody(_, _, _)
ParseStringBody(t, i, acc) ==
    IF i > Len(t) THEN ParseFail
    ELSE IF t[i] = QT THEN ParseOk(JsStr(acc), i + 1)
    ELSE IF t[i] = BS
         THEN IF At(t, i + 1) \in {QT, BS}
              THEN ParseStringBody(t, i + 2, Append(acc, t[i + 1]))
              ELSE ParseFail
    ELSE ParseStringBody(t, i + 1, Append(acc, t[i]))

RECURSIVE ParseDigits(_, _, _)
ParseDigits(t, i, acc) ==
    IF At(t, i) \in Digits THEN ParseDigits(t, i + 1, Append(acc, t[i]))
    ELSE ParseOk(JsNum(acc), i)

RECURSIVE ParseValue(_, _)
RECURSIVE ParseItems(_, _, _)
RECURSIVE ParseMembers(_, _, _, _)

ParseValue(t, i) ==
    IF At(t, i) = QT THEN ParseStringBody(t, i + 1, <<>>)
    ELSE IF At(t, i) = "[" THEN
        IF At(t, i + 1) = "]" THEN ParseOk(JsArr(<<>>), i + 2) ELSE ParseItems(t, i + 1, <<>>)
    ELSE IF At(t, i) = "{" THEN
        IF At(t, i + 1) = "}" THEN ParseOk(JsObj(<<>>, <<>>), i + 2)
        ELSE ParseMembers(t, i + 1, <<>>, <<>>)
    ELSE IF At(t, i) \in Digits THEN ParseDigits(t, i, <<>>)
    ELSE IF i + 3 <= Len(t) /\ SubSeq(t, i, i + 3) = <<"n", "u", "l", "l">> THEN ParseOk(JsNull, i + 4)
    ELSE ParseFail

ParseItems(t, i, acc) ==
    LET r == ParseValue(t, i) IN
    IF ~r.ok THEN ParseFail
    ELSE IF At(t, r.i) = "," THEN ParseItems(t, r.i + 1, Append(acc, r.v))
    ELSE IF At(t, r.i) = "]" THEN ParseOk(JsArr(Append(acc, r.v)), r.i + 1)
    ELSE ParseFail

ParseMembers(t, i, keys, items) ==
    IF At(t, i) # QT THEN ParseFail
    ELSE LET key == ParseStringBody(t, i + 1, <<>>) IN
         IF ~key.ok \/ At(t, key.i) # ":" THEN ParseFail
         ELSE LET r == ParseValue(t, key.i + 1) IN
              IF ~r.ok THEN ParseFail
              ELSE IF At(t, r.i) = ","
                   THEN ParseMembers(t, r.i + 1, Append(keys, key.v.s), Append(items, r.v))
              ELSE IF At(t, r.i) = "}"
                   THEN ParseOk(JsObj(Append(keys, key.v.s), Append(items, r.v)), r.i + 1)
              ELSE ParseFail

\* JSON.parse: [ok |-> FALSE] stands for the SyntaxError it throws.
JSONparse(t) ==
    LET r == ParseValue(t, 1) IN
    IF r.ok /\ r.i = Len(t) + 1 THEN [ok |-> TRUE, v |-> r.v] ELSE [ok |-> FALSE, v |-> JsNull]

\* The property `key` of a parsed object (the last member of that name wins).
HasMember(o, key) == \E i \in 1..Len(o.keys) : o.keys[i] = key
Member(o, key) ==
    o.items[CHOOSE i \in 1..Len(o.keys) :
                /\ o.keys[i] = key
                /\ \A j \in (i + 1)..Len(o.keys) : o.keys[j] # key]

IsStringArray(v) == v.k = "array" /\ \A i \in 1..Len(v.items) : v.items[i].k = "string"

IsTemplateValue(v) ==
    /\ v.k = "object"
    /\ HasMember(v, KeyName) /\ Member(v, KeyName).k = "string"
    /\ HasMember(v, KeyVans) /\ IsStringArray(Member(v, KeyVans))

IsTemplateArray(v) == v.k = "array" /\ \A i \in 1..Len(v.items) : IsTemplateValue(v.items[i])

\* The Template[] a parsed value is, once it is the `templates` state.
AsTemplate(v) ==
    [name |-> Member(v, KeyName).s,
     vans |-> [i \in 1..Len(Member(v, KeyVans).items) |-> Member(v, KeyVans).items[i].s]]

AsTemplates(v) == [i \in 1..Len(v.items) |-> AsTemplate(v.items[i])]

----------------------------------------------------------------------------
(* The application: state after construction *)

TEMPLATES_STORAGE_KEY == "van_bill_manager_templates"

PM == <<"P", "M">>

EmptyForm ==
    [van |-> <<>>, hour |-> <<>>, min |-> <<>>, ampm |-> PM, eWaybill |-> <<>>, invoice |-> <<>>]

\* What the user may have typed into the New Entry form before submitting it.
FormInputs ==
    { EmptyForm,
      [EmptyForm EXCEPT !.van = <<"a">>],
      [EmptyForm EXCEPT !.van = <<SP>>],
      [EmptyForm EXCEPT !.invoice = <<"7">>],
      [EmptyForm EXCEPT !.van = <<"b", QT>>, !.hour = <<"6">>, !.min = <<"5">>,
                        !.eWaybill = <<"1">>],
      [EmptyForm EXCEPT !.min = <<"5">>] }

\* What prompt() may return: null when cancelled, else the text typed.
PromptInputs ==
    { Null, Str(<<>>), Str(<<SP>>), Str(<<"a">>), Str(<<SP, "a", SP>>) }

\* What localStorage may hold under the key when the application starts:
\* nothing, a collection an earlier run saved, or something else.
InitTemplates ==
    { <<>>,
      << [name |-> <<"a">>, vans |-> << <<"a">> >>] >>,
      << [name |-> <<"a">>, vans |-> << <<"b", QT>> >>],
         [name |-> <<"b">>, vans |-> << <<"a">>, <<"b", QT>> >>] >> }

CorruptBlobs == { <<"{">>, <<"n", "u", "l", "l">>, <<"7">> }

InitBlobs == {Null} \cup {Str(JSONstringify(ts)) : ts \in InitTemplates}
                    \cup {Str(b) : b \in CorruptBlobs}

getItem(key) == localStorage[key]

AppConstructed ==
    /\ app = "init"
    /\ rows = <<>>
    /\ form = EmptyForm
    /\ templates = <<>>
    /\ nextId = 0
    /\ lastOp = "construct"
    /\ lastPrompt = Null
    /\ lastSaved = <<>>
    /\ alertShown = "none"
    /\ isLoading = FALSE
    /\ isExporting = FALSE
    /\ exports = <<>>

AppInit ==
    /\ AppConstructed
    /\ localStorage \in [{TEMPLATES_STORAGE_KEY} -> InitBlobs]

\* The application is not running: nothing is stored and no handler fires.
AppIdle ==
    /\ AppConstructed
    /\ localStorage = [key \in {TEMPLATES_STORAGE_KEY} |-> Null]

----------------------------------------------------------------------------
(* The application: effects and handlers *)

\* useEffect(() => { try { getItem; if (stored) setTemplates(JSON.parse(stored)) } catch {..} }, [])
\* A parsed value that is no array makes the next render throw at templates.map.
TemplateLoadEffect ==
    /\ app = "init"
    /\ LET storedTemplates == getItem(TEMPLATES_STORAGE_KEY)
           parsed == JSONparse(storedTemplates.s)
       IN IF ~Truthy(storedTemplates)
          THEN /\ app' = "running"
               /\ lastOp' = "effect_absent"
               /\ UNCHANGED templates
          ELSE IF ~parsed.ok
          THEN /\ app' = "running"
               /\ lastOp' = "effect_caught"
               /\ UNCHANGED templates
          ELSE IF IsTemplateArray(parsed.v)
          THEN /\ app' = "running"
               /\ lastOp' = "effect_loaded"
               /\ templates' = AsTemplates(parsed.v)
          ELSE /\ app' = "crashed"
               /\ lastOp' = "effect_crashed"
               /\ UNCHANGED templates
    /\ lastPrompt' = Null
    /\ alertShown' = "none"
    /\ UNCHANGED <<rows, form, localStorage, nextId, lastSaved>>
    /\ UNCHANGED shareVars
    /\ UNCHANGED swVars

\* The page is loaded again: every useState starts from its initial value.
Reload ==
    /\ app \in {"running", "crashed"}
    /\ app' = "init"
    /\ rows' = <<>>
    /\ form' = EmptyForm
    /\ templates' = <<>>
    /\ lastOp' = "construct"
    /\ lastPrompt' = Null
    /\ alertShown' = "none"
    /\ isLoading' = FALSE
    /\ isExporting' = FALSE
    /\ UNCHANGED <<localStorage, nextId, lastSaved, exports>>
    /\ UNCHANGED swVars

\* The onChange handlers of the form's inputs (setNewVan, setTHour, setTMin, ...).
onChangeForm(f) ==
    /\ app = "running"
    /\ form # f
    /\ form' = f
    /\ lastOp' = "form"
    /\ lastPrompt' = Null
    /\ alertShown' = "none"
    /\ UNCHANGED <<app, rows, templates, localStorage, nextId, lastSaved>>
    /\ UNCHANGED shareVars
    /\ UNCHANGED swVars

\* Variant: the minute is used as typed.
PadStartNone(m) == m

\* String.prototype.padStart(2, '0')
PadStart2(m) ==
    IF Len(m) >= 2 THEN m ELSE IF Len(m) = 1 THEN <<"0">> \o m ELSE <<"0", "0">>

FormattedTime(f) ==
    IF f.hour # <<>>
    THEN f.hour \o <<":">> \o (IF f.min # <<>> THEN PadStart2(f.min) ELSE <<"0", "0">>)
                \o <<SP>> \o f.ampm
    ELSE <<>>

\* Variant: the same token is handed out every time.
RandomUUIDRepeated(k) == 1

\* crypto.randomUUID(): the k-th token handed out after the current ones.
RandomUUID(k) == nextId + k

handleAddItem ==
    /\ app = "running"
    /\ LET formattedTime == FormattedTime(form) IN
       IF form.van = <<>> /\ formattedTime = <<>> /\ form.eWaybill = <<>> /\ form.invoice = <<>>
       THEN /\ lastOp' = "add_ignored"
            /\ UNCHANGED <<rows, form, nextId>>
       ELSE /\ Len(rows) < MaxRows
            /\ nextId < MaxId
            /\ rows' = Append(rows, [id |-> RandomUUID(1), van |-> form.van,
                                     vanOut |-> formattedTime, eWaybill |-> form.eWaybill,
                                     invoice |-> form.invoice])
            /\ nextId' = nextId + 1
            /\ form' = EmptyForm
            /\ lastOp' = "add"
    /\ lastPrompt' = Null
    /\ alertShown' = "none"
    /\ UNCHANGED <<app, templates, localStorage, lastSaved>>
    /\ UNCHANGED shareVars
    /\ UNCHANGED swVars

handleRemoveRow(id) ==
    /\ app = "running"
    /\ rows' = SelectSeq(rows, LAMBDA row : row.id # id)
    /\ lastOp' = "remove"
    /\ lastPrompt' = Null
    /\ alertShown' = "none"
    /\ UNCHANGED <<app, form, templates, localStorage, nextId, lastSaved>>
    /\ UNCHANGED shareVars
    /\ UNCHANGED swVars

DuplicateRow(row) ==
    /\ Len(rows) < MaxRows
    /\ nextId < MaxId
    /\ rows' = Append(rows, [row EXCEPT !.id = RandomUUID(1)])
    /\ nextId' = nextId + 1

handleDuplicateRow(row) ==
    /\ app = "running"
    /\ DuplicateRow(row)
    /\ lastOp' = "duplicate"
    /\ lastPrompt' = Null
    /\ alertShown' = "none"
    /\ UNCHANGED <<app, form, templates, localStorage, lastSaved>>
    /\ UNCHANGED shareVars
    /\ UNCHANGED swVars

handleDuplicateLast ==
    /\ app = "running"
    /\ IF Len(rows) = 0
       THEN /\ lastOp' = "duplicate_ignored"
            /\ UNCHANGED <<rows, nextId>>
       ELSE /\ DuplicateRow(rows[Len(rows)])
            /\ lastOp' = "duplicate_last"
    /\ lastPrompt' = Null
    /\ alertShown' = "none"
    /\ UNCHANGED <<app, form, templates, localStorage, lastSaved>>
    /\ UNCHANGED shareVars
    /\ UNCHANGED swVars

handleClearTable(confirmed) ==
    /\ app = "running"
    /\ IF confirmed
       THEN rows' = <<>> /\ lastOp' = "clear"
       ELSE UNCHANGED rows /\ lastOp' = "clear_declined"
    /\ lastPrompt' = Null
    /\ alertShown' = "none"
    /\ UNCHANGED <<app, form, templates, localStorage, nextId, lastSaved>>
    /\ UNCHANGED shareVars
    /\ UNCHANGED swVars

\* Variant: the name is not trimmed before it is compared with "".
NameAcceptedUntrimmed(p) == Truthy(p)

\* templateName && templateName.trim() !== ""
NameAccepted(p) == Truthy(p) /\ Trim(p.s) # <<>>

\* Variant: the vans that are not blank, each of them trimmed.
TrimmedVans(rs) ==
    SelectSeq([i \in 1..Len(rs) |-> Trim(rs[i].van)], LAMBDA van : van # <<>>)

\* Variant: the filter compares the van itself, not the trimmed van, with "".
NonEmptyVans(rs) == SelectSeq([i \in 1..Len(rs) |-> rs[i].van], LAMBDA van : van # <<>>)

\* rows.map(row => row.van).filter(van => van.trim() !== "")
NonBlankVans(rs) == SelectSeq([i \in 1..Len(rs) |-> rs[i].van], LAMBDA van : Trim(van) # <<>>)

\* Variant: the new template is put first.
PrependedTemplates(ts, newTemplate) ==
    <<newTemplate>> \o SelectSeq(ts, LAMBDA t : t.name # newTemplate.name)

\* Variant: the new template is appended without filtering out its namesakes.
AppendedTemplates(ts, newTemplate) == Append(ts, newTemplate)

\* [...templates.filter(t => t.name !== newTemplate.name), newTemplate]
UpdatedTemplates(ts, newTemplate) ==
    Append(SelectSeq(ts, LAMBDA t : t.name # newTemplate.name), newTemplate)

\* Variant: a template without vans is saved like any other.
VansNeverRejected(vans) == FALSE

\* if (vans.length === 0) { alert(...); return; }
VansRejected(vans) == Len(vans) = 0

\* localStorage.setItem either stores the text (writeOk) or throws (quota exceeded,
\* storage disabled); when it throws, setTemplates has already been called and the
\* alert is not reached.
handleSaveTemplate(templateName, writeOk) ==
    /\ app = "running"
    /\ IF NameAccepted(templateName)
       THEN LET vans == NonBlankVans(rows)
                newTemplate == [name |-> Trim(templateName.s), vans |-> vans]
                updatedTemplates == UpdatedTemplates(templates, newTemplate)
            IN IF VansRejected(vans)
               THEN /\ alertShown' = "empty_template"
                    /\ lastOp' = "save_empty"
                    /\ UNCHANGED <<templates, localStorage, lastSaved>>
               ELSE /\ templates' = updatedTemplates
                    /\ IF writeOk
                       THEN /\ localStorage' =
                                  [localStorage EXCEPT ![TEMPLATES_STORAGE_KEY] =
                                                          Str(JSONstringify(updatedTemplates))]
                            /\ alertShown' = "saved"
                            /\ lastOp' = "save_ok"
                            /\ lastSaved' = <<newTemplate>>
                       ELSE /\ alertShown' = "none"
                            /\ lastOp' = "save_write_failed"
                            /\ UNCHANGED <<localStorage, lastSaved>>
       ELSE /\ alertShown' = "none"
            /\ lastOp' = "save_ignored"
            /\ UNCHANGED <<templates, localStorage, lastSaved>>
    /\ lastPrompt' = templateName
    /\ UNCHANGED <<app, rows, form, nextId>>
    /\ UNCHANGED shareVars
    /\ UNCHANGED swVars

\* templates.find(t => t.name === templateName): the first template of that name
FindTemplate(templateName) ==
    IF \E i \in 1..Len(templates) : templates[i].name = templateName
    THEN <<templates[CHOOSE i \in 1..Len(templates) :
                        /\ templates[i].name = templateName
                        /\ \A j \in 1..(i - 1) : templates[j].name # templateName]>>
    ELSE <<>>

\* Variant: one token is drawn for the whole template instead of one for each row.
NewRowsSameId(template) ==
    [i \in 1..Len(template.vans) |->
        [id |-> RandomUUID(1), van |-> template.vans[i], vanOut |-> <<>>,
         eWaybill |-> <<>>, invoice |-> <<>>]]

\* template.vans.map(van => ({ id: crypto.randomUUID(), van, vanOut: '', eWaybill: '',
\*                            invoice: '' }))
NewRows(template) ==
    [i \in 1..Len(template.vans) |->
        [id |-> RandomUUID(i), van |-> template.vans[i], vanOut |-> <<>>,
         eWaybill |-> <<>>, invoice |-> <<>>]]

\* The <select> offers "" and the name of every template.
OptionValues == {<<>>} \cup {templates[i].name : i \in 1..Len(templates)}

\* Variant: the load goes ahead without asking.
LoadNeverDeclined(rs, confirmed) == FALSE

\* rows.length > 0 && !window.confirm("Replace current list with template?")
LoadDeclined(rs, confirmed) == Len(rs) > 0 /\ ~confirmed

handleLoadTemplate(templateName, confirmed) ==
    /\ app = "running"
    /\ IF templateName = <<>>
       THEN /\ lastOp' = "load_ignored"
            /\ UNCHANGED <<rows, nextId>>
       ELSE IF LoadDeclined(rows, confirmed)
       THEN /\ lastOp' = "load_declined"
            /\ UNCHANGED <<rows, nextId>>
       ELSE LET template == FindTemplate(templateName) IN
            IF template # <<>>
            THEN /\ nextId + Len(template[1].vans) <= MaxId
                 /\ rows' = NewRows(template[1])
                 /\ nextId' = nextId + Len(template[1].vans)
                 /\ lastOp' = "load_replaced"
            ELSE /\ lastOp' = "load_missing"
                 /\ UNCHANGED <<rows, nextId>>
    /\ lastPrompt' = Null
    /\ alertShown' = "none"
    /\ UNCHANGED <<app, form, templates, localStorage, lastSaved>>
    /\ UNCHANGED shareVars
    /\ UNCHANGED swVars

Next ==
    \/ TemplateLoadEffect
    \/ Reload
    \/ \E f \in FormInputs : onChangeForm(f)
    \/ handleAddItem
    \/ \E i \in 1..Len(rows) : handleRemoveRow(rows[i].id)
    \/ \E i \in 1..Len(rows) : handleDuplicateRow(rows[i])
    \/ handleDuplicateLast
    \/ \E confirmed \in BOOLEAN : handleClearTable(confirmed)
    \/ \E p \in PromptInputs : handleSaveTemplate(p, TRUE)
    \/ \E v \in OptionValues, confirmed \in BOOLEAN : handleLoadTemplate(v, confirmed)

\* Forms whose van carries white space around its text, besides plain and blank ones.
VanFormInputs ==
    { [EmptyForm EXCEPT !.van = <<"a">>],
      [EmptyForm EXCEPT !.van = <<SP>>],
      [EmptyForm EXCEPT !.van = <<SP, "a">>, !.hour = <<"6">>, !.eWaybill = <<"1">>,
                        !.invoice = <<"7">>],
      [EmptyForm EXCEPT !.van = <<"b", QT, SP>>] }

AM == <<"A", "M">>

\* Forms that differ in what the time picker holds, and forms with one other field.
TimeFormInputs ==
    { EmptyForm,
      [EmptyForm EXCEPT !.min = <<"5">>],
      [EmptyForm EXCEPT !.min = <<"4", "5">>, !.ampm = AM],
      [EmptyForm EXCEPT !.hour = <<"6">>],
      [EmptyForm EXCEPT !.hour = <<"6">>, !.min = <<"5">>, !.ampm = AM],
      [EmptyForm EXCEPT !.hour = <<"1", "2">>, !.min = <<"4", "5">>],
      [EmptyForm EXCEPT !.van = <<"a">>],
      [EmptyForm EXCEPT !.eWaybill = <<"1">>],
      [EmptyForm EXCEPT !.invoice = <<"7">>] }

\* Filling in the form and adding to the table.
NextAdd ==
    \/ TemplateLoadEffect
    \/ \E f \in TimeFormInputs : onChangeForm(f)
    \/ handleAddItem
    \/ \E confirmed \in BOOLEAN : handleClearTable(confirmed)

\* A collection earlier runs saved under three names, the one the prompt offers in
\* the middle.
ThreeTemplates ==
    << [name |-> <<"b">>, vans |-> << <<"a">>, <<"b", QT>> >>],
       [name |-> <<"a">>, vans |-> << <<"a">> >>],
       [name |-> <<"c">>, vans |-> << <<SP, "a">> >>] >>

\* Filling the table and saving it, where localStorage.setItem may throw.
NextSave ==
    \/ TemplateLoadEffect
    \/ \E f \in VanFormInputs : onChangeForm(f)
    \/ handleAddItem
    \/ handleDuplicateLast
    \/ \E p \in PromptInputs, writeOk \in BOOLEAN : handleSaveTemplate(p, writeOk)

----------------------------------------------------------------------------
(* The application: image export *)

\* One export: where its timer callback stands, whether html-to-image produced the
\* picture, whether navigator.share was called and whether a download was triggered,
\* whether an error was thrown, and whether the failure alert was raised.
Export(pc) ==
    [pc |-> pc, rendered |-> FALSE, shared |-> FALSE, downloaded |-> FALSE,
     failed |-> FALSE, alerted |-> FALSE]

\* captureRef.current: the capture area, rendered whenever the application is.
CaptureRefCurrent == IF app = "running" THEN "div" ELSE "null"

\* Variant: the share button can be pressed at any time.
ShareButtonAlwaysEnabled == TRUE

\* <button onClick={handleShare} disabled={isLoading}>
ShareButtonEnabled == ~isLoading

\* handleShare returns when the capture area is not mounted; otherwise it sets both
\* flags and arms a timer of 300 ms.
handleShare ==
    /\ app = "running"
    /\ ShareButtonEnabled
    /\ Len(exports) < MaxExports
    /\ IF CaptureRefCurrent = "null"
       THEN UNCHANGED shareVars
       ELSE /\ isLoading' = TRUE
            /\ isExporting' = TRUE
            /\ exports' = Append(exports, Export("timer"))
    /\ UNCHANGED appVars
    /\ UNCHANGED swVars

\* The timer fires: the callback calls htmlToImage.toPng and awaits it.
ShareTimeout(i) ==
    /\ exports[i].pc = "timer"
    /\ exports' = [exports EXCEPT ![i].pc = "toPng"]
    /\ UNCHANGED <<isLoading, isExporting>>
    /\ UNCHANGED appVars
    /\ UNCHANGED swVars

\* toPng settles: with the data URL, which is then fetched, or with an error.
ToPngSettle(i, ok) ==
    /\ exports[i].pc = "toPng"
    /\ exports' = IF ok
                  THEN [exports EXCEPT ![i].pc = "blob", ![i].rendered = TRUE]
                  ELSE [exports EXCEPT ![i].pc = "catch", ![i].failed = TRUE]
    /\ UNCHANGED <<isLoading, isExporting>>
    /\ UNCHANGED appVars
    /\ UNCHANGED swVars

\* Variant: the download link is clicked whether or not the file is shared.
DeliverAndDownload(e, canShare) ==
    [e EXCEPT !.pc = IF canShare THEN "share" ELSE "finally",
              !.shared = canShare, !.downloaded = TRUE]

\* if (navigator.share && navigator.canShare({ files: [file] })) await navigator.share(...)
\* else the <a download> link is created, clicked and removed.
Deliver(e, canShare) ==
    IF canShare
    THEN [e EXCEPT !.pc = "share", !.shared = TRUE]
    ELSE [e EXCEPT !.pc = "finally", !.downloaded = TRUE]

\* (await fetch(dataUrl)).blob() settles: with the blob, and the file is delivered, or
\* with an error.
BlobSettle(i, ok, canShare) ==
    /\ exports[i].pc = "blob"
    /\ exports' = IF ok
                  THEN [exports EXCEPT ![i] = Deliver(@, canShare)]
                  ELSE [exports EXCEPT ![i].pc = "catch", ![i].failed = TRUE]
    /\ UNCHANGED <<isLoading, isExporting>>
    /\ UNCHANGED appVars
    /\ UNCHANGED swVars

\* navigator.share settles: fulfilled, or rejected (the user dismissed the sheet, or
\* the share failed).
ShareSettle(i, ok) ==
    /\ exports[i].pc = "share"
    /\ exports' = IF ok
                  THEN [exports EXCEPT ![i].pc = "finally"]
                  ELSE [exports EXCEPT ![i].pc = "catch", ![i].failed = TRUE]
    /\ UNCHANGED <<isLoading, isExporting>>
    /\ UNCHANGED appVars
    /\ UNCHANGED swVars

\* Variant: the catch block ends the callback, and no finally block runs.
CaughtAndStopped(e) == [e EXCEPT !.pc = "done", !.alerted = TRUE]

\* catch (error) { console.error(...); alert('Failed to generate image. ...') }, after
\* which the finally block runs.
Caught(e) == [e EXCEPT !.pc = "finally", !.alerted = TRUE]

ShareCatch(i) ==
    /\ exports[i].pc = "catch"
    /\ exports' = [exports EXCEPT ![i] = Caught(@)]
    /\ UNCHANGED <<isLoading, isExporting>>
    /\ UNCHANGED appVars
    /\ UNCHANGED swVars

\* finally { setIsExporting(false); setIsLoading(false) }
ShareFinally(i) ==
    /\ exports[i].pc = "finally"
    /\ isExporting' = FALSE
    /\ isLoading' = FALSE
    /\ exports' = [exports EXCEPT ![i].pc = "done"]
    /\ UNCHANGED appVars
    /\ UNCHANGED swVars

\* A step of an export that has started: the timer, the settling of an awaited
\* promise, the catch block, the finally block.
ExportStep ==
    \E i \in 1..Len(exports) :
        \/ ShareTimeout(i)
        \/ \E ok \in BOOLEAN : ToPngSettle(i, ok)
        \/ \E ok \in BOOLEAN, canShare \in BOOLEAN : BlobSettle(i, ok, canShare)
        \/ \E ok \in BOOLEAN : ShareSettle(i, ok)
        \/ ShareCatch(i)
        \/ ShareFinally(i)

NextShare ==
    \/ TemplateLoadEffect
    \/ \E f \in FormInputs : onChangeForm(f)
    \/ handleShare
    \/ \E i \in 1..Len(exports) : ShareTimeout(i)
    \/ \E i \in 1..Len(exports), ok \in BOOLEAN : ToPngSettle(i, ok)
    \/ \E i \in 1..Len(exports), ok \in BOOLEAN, canShare \in BOOLEAN : BlobSettle(i, ok, canShare)
    \/ \E i \in 1..Len(exports), ok \in BOOLEAN : ShareSettle(i, ok)
    \/ \E i \in 1..Len(exports) : ShareCatch(i)
    \/ \E i \in 1..Len(exports) : ShareFinally(i)

----------------------------------------------------------------------------
(* The service worker: state *)

CACHE_NAME == "van-bill-manager-v7"

URLS_TO_CACHE ==
    << "/", "/index.html", "/index.tsx", "/App.tsx", "/types.ts", "/components/icons.tsx",
       "https://cdn.tailwindcss.com",
       "https://cdnjs.cloudflare.com/ajax/libs/html-to-image/1.11.11/html-to-image.min.js" >>

\* Containers the origin's CacheStorage may hold when the worker is installed: left by
\* earlier versions of the worker, or by an earlier installation under the same name,
\* in the order in which they were created.
CacheNames == <<"van-bill-manager-v5", "van-bill-manager-v6", CACHE_NAME>>

InitEntries == { {}, {"/"}, {"/", "/index.html"}, {"/App.tsx", "/logo.png"} }

RECURSIVE StoragesOver(_)
StoragesOver(names) ==
    IF names = <<>> THEN {<<>>}
    ELSE LET rest == StoragesOver(Tail(names)) IN
         rest \cup {<<[name |-> Head(names), entries |-> e]>> \o cs : e \in InitEntries, cs \in rest}

InitCacheStorages == StoragesOver(CacheNames)

\* The requests the worker is asked to answer.
Requests ==
    { [mode |-> "navigate", url |-> "/"],
      [mode |-> "navigate", url |-> "/index.html"],
      [mode |-> "no-cors", url |-> "/App.tsx"],
      [mode |-> "no-cors", url |-> "/logo.png"] }

NoResponse == [kind |-> "none", url |-> "", cache |-> ""]
Undefined == [kind |-> "undefined", url |-> "", cache |-> ""]
NetworkError == [kind |-> "error", url |-> "", cache |-> ""]
NetworkResponse(url) == [kind |-> "network", url |-> url, cache |-> ""]
CachedResponse(name, url) == [kind |-> "cache", url |-> url, cache |-> name]

SwConstructed ==
    /\ swState = "parsed"
    /\ installPc = "idle"
    /\ activatePc = "idle"
    /\ cacheNames = {}
    /\ pendingDeletes = {}
    /\ claimed = FALSE
    /\ swLog = <<>>
    /\ fetches = <<>>

SwInit ==
    /\ SwConstructed
    /\ cacheStorage \in InitCacheStorages

\* The worker is not registered: no container exists and no event fires.
SwIdle ==
    /\ SwConstructed
    /\ cacheStorage = <<>>

ContainerNames(cs) == {cs[i].name : i \in 1..Len(cs)}

\* CacheStorage.match(url): the response of the first container, in creation order,
\* that holds one for the URL; undefined when none does.
CachesMatch(cs, url) ==
    IF \E i \in 1..Len(cs) : url \in cs[i].entries
    THEN CachedResponse(cs[CHOOSE i \in 1..Len(cs) :
                               /\ url \in cs[i].entries
                               /\ \A j \in 1..(i - 1) : url \notin cs[j].entries].name, url)
    ELSE Undefined

----------------------------------------------------------------------------
(* The service worker: install *)

\* install: event.waitUntil(caches.open(CACHE_NAME).then(...)); self.skipWaiting()
InstallEvent ==
    /\ swState = "parsed"
    /\ swState' = "installing"
    /\ installPc' = "open"
    /\ UNCHANGED <<cacheStorage, activatePc, cacheNames, pendingDeletes, claimed, swLog, fetches>>
    /\ UNCHANGED appVars
    /\ UNCHANGED shareVars

\* caches.open(name) creates the container when it does not exist.
CachesOpen(cs, name) ==
    IF name \in ContainerNames(cs) THEN cs ELSE Append(cs, [name |-> name, entries |-> {}])

CachesOpenResolve ==
    /\ installPc = "open"
    /\ cacheStorage' = CachesOpen(cacheStorage, CACHE_NAME)
    /\ installPc' = "addAll"
    /\ UNCHANGED <<swState, activatePc, cacheNames, pendingDeletes, claimed, swLog, fetches>>
    /\ UNCHANGED appVars
    /\ UNCHANGED shareVars

\* Variant: the responses that could be fetched are stored, the others left out.
AddAllPartial(cs, name, urls, failed) ==
    [i \in 1..Len(cs) |->
        IF cs[i].name = name
        THEN [cs[i] EXCEPT !.entries = cs[i].entries \cup (Range(urls) \ failed)]
        ELSE cs[i]]

\* cache.addAll(urls) fetches every URL and stores the responses only when all of them
\* succeeded; otherwise it rejects and stores none.
AddAll(cs, name, urls, failed) ==
    IF failed = {}
    THEN [i \in 1..Len(cs) |->
            IF cs[i].name = name
            THEN [cs[i] EXCEPT !.entries = cs[i].entries \cup Range(urls)]
            ELSE cs[i]]
    ELSE cs

\* Variant: the rejection of addAll is not caught.
InstallPromiseUncaught(failed) ==
    [settled |-> IF failed = {} THEN "fulfilled" ELSE "rejected", log |-> <<>>]

\* cache.addAll(URLS_TO_CACHE).catch(err => console.error("Cache addAll failed", err)):
\* how the promise given to waitUntil settles, and what is logged.
InstallPromise(failed) ==
    [settled |-> "fulfilled",
     log |-> IF failed = {} THEN <<>> ELSE <<"Cache addAll failed">>]

AddAllSettle(failed) ==
    /\ installPc = "addAll"
    /\ cacheStorage' = AddAll(cacheStorage, CACHE_NAME, URLS_TO_CACHE, failed)
    /\ swLog' = swLog \o InstallPromise(failed).log
    /\ installPc' = "done"
    /\ swState' = IF InstallPromise(failed).settled = "fulfilled" THEN "installed" ELSE "redundant"
    /\ UNCHANGED <<activatePc, cacheNames, pendingDeletes, claimed, fetches>>
    /\ UNCHANGED appVars
    /\ UNCHANGED shareVars

----------------------------------------------------------------------------
(* The service worker: activate *)

\* activate: event.waitUntil(caches.keys().then(...)); self.clients.claim()
ActivateEvent ==
    /\ swState = "installed"
    /\ swState' = "activating"
    /\ activatePc' = "keys"
    /\ claimed' = TRUE
    /\ UNCHANGED <<cacheStorage, installPc, cacheNames, pendingDeletes, swLog, fetches>>
    /\ UNCHANGED appVars
    /\ UNCHANGED shareVars

cacheWhitelist == <<CACHE_NAME>>

\* Variant: no container is deleted.
NamesToDeleteNone(names) == {}

\* cacheNames.map(cacheName => { if (cacheWhitelist.indexOf(cacheName) === -1)
\*                                 return caches.delete(cacheName) })
NamesToDelete(names) == {cacheName \in names : cacheName \notin Range(cacheWhitelist)}

ActivateKeysResolve ==
    /\ activatePc = "keys"
    /\ cacheNames' = ContainerNames(cacheStorage)
    /\ pendingDeletes' = NamesToDelete(ContainerNames(cacheStorage))
    /\ activatePc' = "deleting"
    /\ UNCHANGED <<swState, cacheStorage, installPc, claimed, swLog, fetches>>
    /\ UNCHANGED appVars
    /\ UNCHANGED shareVars

CachesDeleteResolve(cacheName) ==
    /\ activatePc = "deleting"
    /\ cacheName \in pendingDeletes
    /\ cacheStorage' = SelectSeq(cacheStorage, LAMBDA c : c.name # cacheName)
    /\ pendingDeletes' = pendingDeletes \ {cacheName}
    /\ UNCHANGED <<swState, installPc, activatePc, cacheNames, claimed, swLog, fetches>>
    /\ UNCHANGED appVars
    /\ UNCHANGED shareVars

\* Promise.all settles once every delete has: the worker becomes activated.
ActivateDone ==
    /\ activatePc = "deleting"
    /\ pendingDeletes = {}
    /\ activatePc' = "done"
    /\ swState' = "activated"
    /\ UNCHANGED <<cacheStorage, installPc, cacheNames, pendingDeletes, claimed, swLog, fetches>>
    /\ UNCHANGED appVars
    /\ UNCHANGED shareVars

----------------------------------------------------------------------------
(* The service worker: fetch *)

\* One interception: its request, where its promise chain stands, the network
\* requests and cache lookups it has issued, how its network request settled,
\* and what respondWith received.
Interception(request, pc, net, lookups) ==
    [request |-> request, pc |-> pc, netRequests |-> net, cacheLookups |-> lookups,
     netSettled |-> "no", response |-> NoResponse]

FirstStepCacheFirst(request) == Interception(request, "match", 0, 1)

\* Variant: the cached shell is looked up while the network request is still pending.
FirstStepNetworkRacingCache(request) == Interception(request, "fallback", 1, 1)

\* event.respondWith(fetch(event.request).catch(...)): only the network is asked.
FirstStepNetworkFirst(request) == Interception(request, "network", 1, 0)

\* fetch: a navigation calls fetch(event.request); any other request calls
\* caches.match(event.request).
FirstStep(request) ==
    IF request.mode = "navigate"
    THEN FirstStepNetworkFirst(request)
    ELSE FirstStepCacheFirst(request)

FetchEvent(request) ==
    /\ swState = "activated"
    /\ Len(fetches) < MaxFetches
    /\ fetches' = Append(fetches, FirstStep(request))
    /\ UNCHANGED <<swState, cacheStorage, installPc, activatePc, cacheNames, pendingDeletes,
                   claimed, swLog>>
    /\ UNCHANGED appVars
    /\ UNCHANGED shareVars

\* Variant: the response the network gave is put into the current container.
CachePutFetched(cs, url) ==
    [k \in 1..Len(cs) |->
        IF cs[k].name = CACHE_NAME THEN [cs[k] EXCEPT !.entries = @ \cup {url}] ELSE cs[k]]

\* What the handlers do to CacheStorage with a response the network gave: the navigate
\* branch has no then-handler, the other branch returns the response whatever its
\* status and type; neither calls cache.put.
CacheAfterFetch(cs, url) == cs

\* fetch(event.request) fulfils: both branches hand the response to respondWith.
NetworkResolve(i) ==
    /\ fetches[i].pc = "network"
    /\ fetches' = [fetches EXCEPT ![i].pc = "responded",
                                  ![i].netSettled = "fulfilled",
                                  ![i].response = NetworkResponse(fetches[i].request.url)]
    /\ cacheStorage' = CacheAfterFetch(cacheStorage, fetches[i].request.url)
    /\ UNCHANGED <<swState, installPc, activatePc, cacheNames, pendingDeletes,
                   claimed, swLog>>
    /\ UNCHANGED appVars
    /\ UNCHANGED shareVars

\* fetch(event.request) rejects: a navigation runs its catch handler, which calls
\* caches.match('/index.html'); any other request has no handler and fails.
NetworkReject(i) ==
    /\ fetches[i].pc = "network"
    /\ IF fetches[i].request.mode = "navigate"
       THEN fetches' = [fetches EXCEPT ![i].pc = "fallback",
                                       ![i].netSettled = "rejected",
                                       ![i].cacheLookups = @ + 1]
       ELSE fetches' = [fetches EXCEPT ![i].pc = "failed",
                                       ![i].netSettled = "rejected",
                                       ![i].response = NetworkError]
    /\ UNCHANGED <<swState, cacheStorage, installPc, activatePc, cacheNames, pendingDeletes,
                   claimed, swLog>>
    /\ UNCHANGED appVars
    /\ UNCHANGED shareVars

\* Variant: the response cached for the index document, else the one cached for the
\* root (what an || on the resolved values would give).
FallbackIndexElseRoot(cs) ==
    IF CachesMatch(cs, "/index.html") # Undefined
    THEN CachesMatch(cs, "/index.html")
    ELSE CachesMatch(cs, "/")

\* Variant: a page made up by the worker stands in when the index document is not cached.
FallbackOfflinePage(cs) ==
    IF CachesMatch(cs, "/index.html") # Undefined
    THEN CachesMatch(cs, "/index.html")
    ELSE [kind |-> "synthetic", url |-> "/offline", cache |-> ""]

\* caches.match('/index.html') || caches.match('/'): the left operand is a promise,
\* an object and so truthy, whatever it resolves to; the right operand is never
\* evaluated and the handler returns the left promise.
Fallback(cs) == CachesMatch(cs, "/index.html")

\* The promise the catch handler returned resolves; respondWith given undefined
\* answers the request with a network error.
FallbackResolve(i) ==
    /\ fetches[i].pc = "fallback"
    /\ LET response == Fallback(cacheStorage) IN
       IF response # Undefined
       THEN fetches' = [fetches EXCEPT ![i].pc = "responded", ![i].response = response]
       ELSE fetches' = [fetches EXCEPT ![i].pc = "failed", ![i].response = NetworkError]
    /\ UNCHANGED <<swState, cacheStorage, installPc, activatePc, cacheNames, pendingDeletes,
                   claimed, swLog>>
    /\ UNCHANGED appVars
    /\ UNCHANGED shareVars

\* Variant: the network is asked whatever the cache holds.
AfterMatchAlwaysFetch(f, response) ==
    [f EXCEPT !.pc = "network", !.netRequests = @ + 1]

\* caches.match(event.request).then(response => response ? response : fetch(event.request))
AfterMatch(f, response) ==
    IF response # Undefined
    THEN [f EXCEPT !.pc = "responded", !.response = response]
    ELSE [f EXCEPT !.pc = "network", !.netRequests = @ + 1]

MatchResolve(i) ==
    /\ fetches[i].pc = "match"
    /\ fetches' = [fetches EXCEPT
                     ![i] = AfterMatch(@, CachesMatch(cacheStorage, fetches[i].request.url))]
    /\ UNCHANGED <<swState, cacheStorage, installPc, activatePc, cacheNames, pendingDeletes,
                   claimed, swLog>>
    /\ UNCHANGED appVars
    /\ UNCHANGED shareVars

NextSW ==
    \/ InstallEvent
    \/ CachesOpenResolve
    \/ \E failed \in SUBSET Range(URLS_TO_CACHE) : AddAllSettle(failed)
    \/ ActivateEvent
    \/ ActivateKeysResolve
    \/ \E cacheName \in pendingDeletes : CachesDeleteResolve(cacheName)
    \/ ActivateDone
    \/ \E request \in Requests : FetchEvent(request)
    \/ \E i \in 1..Len(fetches) : NetworkResolve(i)
    \/ \E i \in 1..Len(fetches) : NetworkReject(i)
    \/ \E i \in 1..Len(fetches) : FallbackResolve(i)
    \/ \E i \in 1..Len(fetches) : MatchResolve(i)

----------------------------------------------------------------------------
(* Specifications *)

\* The application, with the worker not registered.
Init == AppInit /\ SwIdle
Spec == Init /\ [][Next]_vars

\* The application started on a store that holds no template: nothing under the key,
\* or the serialized empty collection.
InitEmpty ==
    /\ AppConstructed
    /\ localStorage \in [{TEMPLATES_STORAGE_KEY} -> {Null, Str(JSONstringify(<<>>))}]
    /\ SwIdle
SpecEmpty == InitEmpty /\ [][Next]_vars

\* The application filling its table and saving templates, with storage writes that
\* may fail, and the worker not registered.
InitSave ==
    /\ AppConstructed
    /\ localStorage \in [{TEMPLATES_STORAGE_KEY} -> {Null, Str(JSONstringify(ThreeTemplates))}]
    /\ SwIdle
SpecSave == InitSave /\ [][NextSave]_vars

\* The application filling its table from the form, with the worker not registered.
SpecAdd == InitEmpty /\ [][NextAdd]_vars

\* The application and its image exports, with the worker not registered.  The timer
\* fires, the promises the callback awaits settle, and the callback runs on.
SpecShare == Init /\ [][NextShare]_vars /\ WF_vars(ExportStep)

\* The service worker, with the application not running.
InitSW == AppIdle /\ SwInit
SpecSW == InitSW /\ [][NextSW]_vars

----------------------------------------------------------------------------
(* Properties of the template store *)

IsBlankText(s) == \A i \in 1..Len(s) : s[i] \in WhiteSpace

IsBlankName(p) == p.isNull \/ IsBlankText(p.s)

\* n is s without its leading and trailing white space
IsTrimOf(n, s) ==
    /\ n # <<>> => (n[1] \notin WhiteSpace /\ n[Len(n)] \notin WhiteSpace)
    /\ \E i \in 0..Len(s) :
          /\ i + Len(n) <= Len(s)
          /\ SubSeq(s, i + 1, i + Len(n)) = n
          /\ IsBlankText(SubSeq(s, 1, i))
          /\ IsBlankText(SubSeq(s, i + Len(n) + 1, Len(s)))

\* The collection the text stored under the key stands for; <<>> when it stands for none.
PersistedTemplates(ls) ==
    LET parsed == JSONparse(ls[TEMPLATES_STORAGE_KEY].s) IN
    IF Truthy(ls[TEMPLATES_STORAGE_KEY]) /\ parsed.ok /\ IsTemplateArray(parsed.v)
    THEN AsTemplates(parsed.v)
    ELSE <<>>

\* The van fields of the rows that are not blank, in row order.
ExpectedVans(rs) ==
    SelectSeq([i \in 1..Len(rs) |-> rs[i].van], LAMBDA van : ~IsBlankText(van))

CountNamed(ts, n) == Cardinality({i \in 1..Len(ts) : ts[i].name = n})

\* C1: a handleSaveTemplate whose prompt was cancelled, or returned an empty or
\* whitespace-only name, changes neither the template collection in memory nor the
\* text stored under the storage key.
C1_BlankNameChangesNothing ==
    [][ \A p \in PromptInputs :
          (IsBlankName(p) /\ handleSaveTemplate(p, TRUE))
             => (templates' = templates /\ localStorage' = localStorage) ]_vars

\* A whitespace-only name was given while the table held a van worth saving.
C1_Witness ==
    /\ lastOp = "save_ignored"
    /\ lastPrompt = Str(<<SP>>)
    /\ \E i \in 1..Len(rows) : rows[i].van = <<"a">>
    /\ templates # <<>>

\* C2: a handleSaveTemplate with a valid name, on a table whose rows all have a
\* blank van (an empty table included), adds or replaces no template and leaves the
\* stored text unchanged.
C2_BlankVansChangeNothing ==
    [][ \A p \in PromptInputs :
          (/\ ~IsBlankName(p)
           /\ \A i \in 1..Len(rows) : IsBlankText(rows[i].van)
           /\ handleSaveTemplate(p, TRUE))
             => (templates' = templates /\ localStorage' = localStorage) ]_vars

\* A valid name was given on a table of two rows, one with an empty van and one
\* with a whitespace-only van.
C2_Witness ==
    /\ lastOp = "save_empty"
    /\ ~IsBlankName(lastPrompt)
    /\ Len(rows) = 2
    /\ \E i, j \in 1..Len(rows) : rows[i].van = <<>> /\ rows[j].van = <<SP>>

\* C3: after a successful save the collection, in memory and as persisted, holds
\* exactly one template whose name is the trimmed name given, that template carries
\* the vans just saved (the rows are as the save found them), and it is the last
\* one; so it is in particular when a template of that name existed before.
C3_SaveReplacesByName ==
    lastOp = "save_ok"
        => /\ ~lastPrompt.isNull
           /\ \E i \in 1..Len(templates) : IsTrimOf(templates[i].name, lastPrompt.s)
           /\ \A n \in {templates[i].name : i \in 1..Len(templates)} :
                IsTrimOf(n, lastPrompt.s)
                   => LET saved == [name |-> n, vans |-> ExpectedVans(rows)]
                          persisted == PersistedTemplates(localStorage)
                      IN /\ CountNamed(templates, n) = 1
                         /\ templates[Len(templates)] = saved
                         /\ CountNamed(persisted, n) = 1
                         /\ persisted[Len(persisted)] = saved

\* Template "a" stood first of two and was saved again under " a ": it is now last.
C3_Witness ==
    /\ lastOp = "save_ok"
    /\ lastPrompt = Str(<<SP, "a", SP>>)
    /\ Len(templates) = 2
    /\ templates[1].name = <<"b">>
    /\ templates[2].name = <<"a">>
    /\ templates[2].vans = << <<"a">>, <<"b", QT>> >>

\* C4: a confirmed handleLoadTemplate of an existing template T replaces the rows:
\* the new list has one row for each van of T, in order, with that van and empty
\* vanOut, eWaybill and invoice, and ids that differ from each other and from the
\* ids of the rows replaced.
C4_LoadReplacesRows ==
    [][ \A k \in 1..Len(templates) :
          (/\ \A j \in 1..(k - 1) : templates[j].name # templates[k].name
           /\ handleLoadTemplate(templates[k].name, TRUE))
             => /\ Len(rows') = Len(templates[k].vans)
                /\ \A i \in 1..Len(rows') :
                      /\ rows'[i].van = templates[k].vans[i]
                      /\ rows'[i].vanOut = <<>>
                      /\ rows'[i].eWaybill = <<>>
                      /\ rows'[i].invoice = <<>>
                      /\ \A j \in 1..Len(rows) : rows'[i].id # rows[j].id
                      /\ \A j \in 1..Len(rows') : i # j => rows'[i].id # rows'[j].id ]_vars

\* A two-van template was loaded over a table that held rows.
C4_Witness ==
    /\ lastOp = "load_replaced"
    /\ Len(rows) = 2
    /\ rows[1].van # rows[2].van
    /\ rows[1].id > 1

\* C5: once a template T has been saved successfully, a startup load from the stored
\* text succeeds and yields a collection that contains T: the saved name and the
\* saved vans, in the same order.
C5_SaveSurvivesReload ==
    (lastSaved # <<>> /\ lastOp \in {"effect_absent", "effect_caught", "effect_loaded",
                                      "effect_crashed"})
        => /\ lastOp = "effect_loaded"
           /\ \E i \in 1..Len(templates) : templates[i] = lastSaved[1]

\* A template with a van that holds a double quote was saved, and the page reloaded.
C5_Witness ==
    /\ lastOp = "effect_loaded"
    /\ lastSaved # <<>>
    /\ \E i \in 1..Len(lastSaved[1].vans) : QT \in Range(lastSaved[1].vans[i])
    /\ Len(templates) = 2

\* C13: handleLoadTemplate changes the rows only if the table was empty or the user
\* confirmed; on a table that holds rows, with the confirmation declined, the rows,
\* the template collection and the stored text are all unchanged.
C13_DeclinedLoadChangesNothing ==
    [][ \A v \in OptionValues, confirmed \in BOOLEAN :
          handleLoadTemplate(v, confirmed)
             => /\ rows' # rows => (Len(rows) = 0 \/ confirmed)
                /\ (Len(rows) > 0 /\ ~confirmed)
                      => (rows' = rows /\ templates' = templates
                                      /\ localStorage' = localStorage) ]_vars

\* The load of an existing two-van template was declined on a table of one row.
C13_Witness ==
    /\ lastOp = "load_declined"
    /\ Len(rows) = 1
    /\ \E i \in 1..Len(templates) : Len(templates[i].vans) = 2

IsValidTemplate(t) == Trim(t.name) # <<>> /\ Len(t.vans) > 0

\* C14: started on an empty store, whatever saves were attempted, every template of
\* the collection in memory and of the stored text has a name that is not empty once
\* trimmed and at least one van; the stored text, when present, is a serialized
\* collection of templates.
C14_TemplatesAreValid ==
    /\ \A i \in 1..Len(templates) : IsValidTemplate(templates[i])
    /\ Truthy(localStorage[TEMPLATES_STORAGE_KEY])
          => /\ JSONparse(localStorage[TEMPLATES_STORAGE_KEY].s).ok
             /\ IsTemplateArray(JSONparse(localStorage[TEMPLATES_STORAGE_KEY].s).v)
    /\ \A i \in 1..Len(PersistedTemplates(localStorage)) :
          IsValidTemplate(PersistedTemplates(localStorage)[i])

\* A template was saved, and then a save was attempted under a valid name on a
\* table whose only row has a whitespace-only van.
C14_Witness ==
    /\ lastOp = "save_empty"
    /\ Len(rows) = 1 /\ rows[1].van = <<SP>>
    /\ Len(templates) = 1
    /\ Len(PersistedTemplates(localStorage)) = 1

\* C15: after a handleSaveTemplate that validation rejected, because the name typed
\* trims to empty or because no row has a van that is not blank, an alert is showing.
C15_RejectedSaveAlerts ==
    (/\ ~lastPrompt.isNull
     /\ IsBlankText(lastPrompt.s) \/ ExpectedVans(rows) = <<>>)
        => alertShown # "none"

\* C22: the vans of a template just saved are the van fields of the rows, in row
\* order, without the rows whose van is empty or white space only: duplicates are
\* kept, each value is stored as it stands in its row, and the template holds nothing
\* but its name and these vans, in memory and in the stored text.
C22_SavedVansAreRowVans ==
    lastOp = "save_ok"
        => LET saved == templates[Len(templates)]
               persisted == PersistedTemplates(localStorage)
           IN /\ DOMAIN saved = {"name", "vans"}
              /\ Len(saved.vans) = Cardinality({i \in 1..Len(rows) : ~IsBlankText(rows[i].van)})
              /\ \E pos \in [1..Len(saved.vans) -> 1..Len(rows)] :
                    /\ \A k \in 1..Len(saved.vans) : saved.vans[k] = rows[pos[k]].van
                    /\ \A k \in 1..(Len(saved.vans) - 1) : pos[k] < pos[k + 1]
              /\ \A k \in 1..Len(saved.vans) : ~IsBlankText(saved.vans[k])
              /\ persisted # <<>>
              /\ persisted[Len(persisted)] = saved
              /\ lastSaved = <<saved>>

\* Saved from a table of two rows that both hold the same van, with white space before
\* its text and with other fields filled in.
C22_Witness ==
    /\ lastOp = "save_ok"
    /\ Len(rows) = 2
    /\ rows[1].van = <<SP, "a">> /\ rows[2].van = <<SP, "a">>
    /\ rows[1].invoice = <<"7">>
    /\ templates[Len(templates)].vans = << <<SP, "a">>, <<SP, "a">> >>

\* The templates of ts whose name is not n, in their order.
Without(ts, n) == SelectSeq(ts, LAMBDA t : t.name # n)

C24_FailedWriteChangesNothing ==
    lastOp = "save_write_failed"
        => /\ templates = PersistedTemplates(localStorage)
           /\ alertShown # "saved"

\* The time the picker stands for: nothing without an hour, else the hour, a colon,
\* the minute in two digits (00 when none was typed), a space and AM or PM.
ComposedTime(f) ==
    IF Len(f.hour) = 0 THEN <<>>
    ELSE f.hour \o <<":">>
                \o (CASE Len(f.min) = 0 -> <<"0", "0">>
                      [] Len(f.min) = 1 -> <<"0", f.min[1]>>
                      [] OTHER -> f.min)
                \o <<SP>> \o f.ampm

\* C25: when the van, the composed time, the eWaybill or the invoice of the form is
\* not empty, handleAddItem appends one row at the end of the table, holding these
\* four values under an id of its own, and resets the form; otherwise it changes
\* neither the rows nor the form.
C25_AddAppendsOneRow ==
    [][ handleAddItem
          => IF \/ form.van # <<>> \/ ComposedTime(form) # <<>>
                \/ form.eWaybill # <<>> \/ form.invoice # <<>>
             THEN /\ Len(rows') = Len(rows) + 1
                  /\ SubSeq(rows', 1, Len(rows)) = rows
                  /\ rows'[Len(rows')].van = form.van
                  /\ rows'[Len(rows')].vanOut = ComposedTime(form)
                  /\ rows'[Len(rows')].eWaybill = form.eWaybill
                  /\ rows'[Len(rows')].invoice = form.invoice
                  /\ \A i \in 1..Len(rows) : rows[i].id # rows'[Len(rows')].id
                  /\ form' = EmptyForm
             ELSE rows' = rows /\ form' = form ]_vars

\* A row with time 6:05 AM was added after one with time 6:00 PM, and the form is
\* reset.
C25_Witness ==
    /\ lastOp = "add"
    /\ Len(rows) = 2
    /\ rows[1].vanOut = <<"6", ":", "0", "0", SP, "P", "M">>
    /\ rows[2].vanOut = <<"6", ":", "0", "5", SP, "A", "M">>
    /\ form = EmptyForm

\* rs without its i-th element.
WithoutPosition(rs, i) == SubSeq(rs, 1, i - 1) \o SubSeq(rs, i + 1, Len(rs))

\* C26: the ids of the rows are pairwise distinct in every state, whatever rows were
\* added, duplicated, removed, cleared or loaded from a template; and so
\* handleRemoveRow(id) removes the one row of that id and keeps the others in order.
C26_RowIdsAreDistinct ==
    /\ [](\A i, j \in 1..Len(rows) : i # j => rows[i].id # rows[j].id)
    /\ [][ lastOp' = "remove"
              => \A i \in 1..Len(rows) :
                    handleRemoveRow(rows[i].id) => rows' = WithoutPosition(rows, i) ]_vars

\* The first of two rows was removed; the row that stays was loaded from a template
\* over a table that held rows.
C26_Witness ==
    /\ lastOp = "remove"
    /\ Len(rows) = 1
    /\ rows[1].id = 3
    /\ rows[1].vanOut = <<>>
    /\ rows[1].van = <<"b", QT>>

\* C27: with storage writes that succeed, once the startup load has run on a store
\* that was absent or well formed, the collection in memory is the collection the
\* stored text stands for (the empty one when nothing is stored), whatever saves,
\* loads and row edits followed.  It is so from any state where the application runs
\* and the stored text is absent or well formed.
C27_MemoryEqualsStore ==
    (/\ app = "running"
     /\ \/ localStorage[TEMPLATES_STORAGE_KEY].isNull
        \/ /\ JSONparse(localStorage[TEMPLATES_STORAGE_KEY].s).ok
           /\ IsTemplateArray(JSONparse(localStorage[TEMPLATES_STORAGE_KEY].s).v))
        => templates = PersistedTemplates(localStorage)

\* A template was saved next to the one the store held at startup, and rows were
\* then loaded from a template and duplicated.
C27_Witness ==
    /\ app = "running"
    /\ lastOp = "duplicate"
    /\ lastSaved # <<>>
    /\ Len(templates) = 2
    /\ templates[2] = lastSaved[1]
    /\ \E i \in 1..Len(rows) : rows[i].van \notin Range(lastSaved[1].vans)
    /\ templates = PersistedTemplates(localStorage)

\* The text stored under the key is the serialized form of a collection of templates.
IsWellFormedBlob(ls) ==
    /\ Truthy(ls[TEMPLATES_STORAGE_KEY])
    /\ JSONparse(ls[TEMPLATES_STORAGE_KEY].s).ok
    /\ IsTemplateArray(JSONparse(ls[TEMPLATES_STORAGE_KEY].s).v)

\* C12: once the startup load has run, if the stored text is absent or is anything
\* but the serialized form of a collection of templates (unparseable, or parseable
\* into some other value), the application is running and its collection is empty.
C12_CorruptBlobMeansNoTemplates ==
    (app # "init" /\ ~IsWellFormedBlob(localStorage))
        => (app = "running" /\ templates = <<>>)

InFlight == {i \in 1..Len(exports) : exports[i].pc # "done"}

\* C20: every export that has started comes to its end with both flags cleared,
\* whether it succeeded or failed; the flags stay set for as long as it is under way;
\* and an export that failed has raised its alert by the time its finally block is
\* reached, so before the flags are cleared, while one that succeeded raises none.
C20_ExportClearsFlags ==
    /\ \A k \in 1..MaxExports :
          (Len(exports) >= k /\ exports[k].pc # "done")
             ~> (Len(exports) >= k /\ exports[k].pc = "done" /\ ~isLoading /\ ~isExporting)
    /\ [](/\ isLoading <=> InFlight # {}
          /\ isExporting <=> InFlight # {}
          /\ \A i \in 1..Len(exports) :
                exports[i].pc \in {"finally", "done"}
                   => (exports[i].alerted <=> exports[i].failed))

\* One export failed when the share was dismissed and one succeeded by download; both
\* are over and the flags are cleared.
C20_Witness ==
    /\ Len(exports) = 2
    /\ exports[1].pc = "done" /\ exports[1].shared /\ exports[1].failed /\ exports[1].alerted
    /\ exports[2].pc = "done" /\ exports[2].downloaded /\ ~exports[2].failed
    /\ ~isLoading /\ ~isExporting

\* C21: once the picture of an export has been rendered and made into a file, one
\* delivery path is taken: navigator.share when it exists and accepts the file, the
\* download link otherwise.  No export ever has both; an export where the share was
\* attempted never downloads, also when the share is rejected; an export that ended
\* without error took exactly one path.
C21_OneDeliveryPath ==
    /\ [](\A i \in 1..Len(exports) :
            /\ ~(exports[i].shared /\ exports[i].downloaded)
            /\ exports[i].failed => ~exports[i].downloaded
            /\ (exports[i].pc \in {"finally", "done"} /\ ~exports[i].failed)
                  => (exports[i].shared \/ exports[i].downloaded))
    /\ [][ \A i \in 1..Len(exports), canShare \in BOOLEAN :
              BlobSettle(i, TRUE, canShare)
                 => /\ exports'[i].shared = canShare
                    /\ exports'[i].downloaded = ~canShare ]_vars
    /\ [][ \A i \in 1..Len(exports) :
              exports[i].shared => ~exports'[i].downloaded ]_vars

\* One export was downloaded; the next was offered to the share sheet, the share
\* was rejected, and the export ended without a download.
C21_Witness ==
    /\ Len(exports) = 2
    /\ exports[1].pc = "done" /\ exports[1].downloaded /\ ~exports[1].shared
    /\ exports[2].pc = "done" /\ exports[2].shared /\ exports[2].failed
    /\ ~exports[2].downloaded

\* C29: in every state isExporting implies isLoading; an export is started only
\* while isLoading is false; and so at most one export is under way at any time, with
\* both flags set from its start until its finally block has run.
C29_OneExportInFlight ==
    /\ [](/\ isExporting => isLoading
          /\ Cardinality(InFlight) <= 1
          /\ \A i \in InFlight : i = Len(exports) /\ isLoading /\ isExporting)
    /\ [][ Len(exports') > Len(exports)
              => (~isLoading /\ InFlight = {} /\ isLoading' /\ isExporting') ]_vars

\* A second export is waiting for the share sheet, after the first one is over.
C29_Witness ==
    /\ Len(exports) = 2
    /\ exports[1].pc = "done"
    /\ exports[2].pc = "share"
    /\ isLoading /\ isExporting

----------------------------------------------------------------------------
(* Properties of the service worker *)

Navigations == {i \in 1..Len(fetches) : fetches[i].request.mode = "navigate"}
Others == {i \in 1..Len(fetches) : fetches[i].request.mode # "navigate"}

Answered(i) == fetches[i].pc \in {"responded", "failed"}

\* C6: whatever containers existed when activate started, once activate has
\* completed no container named otherwise than CACHE_NAME remains and at most one
\* container named CACHE_NAME exists.
C6_ActivateLeavesCurrentOnly ==
    activatePc = "done"
        => /\ \A i \in 1..Len(cacheStorage) : cacheStorage[i].name = CACHE_NAME
           /\ Cardinality({i \in 1..Len(cacheStorage) : cacheStorage[i].name = CACHE_NAME}) <= 1

\* Activate found the current container and two of earlier versions, and completed.
C6_Witness ==
    /\ activatePc = "done"
    /\ Cardinality(cacheNames) = 3
    /\ Len(cacheStorage) = 1

\* C7: a navigation whose network fetch failed while a shell document (the index
\* document or the root) was cached is answered with that cached document and not
\* with an error.
C7_OfflineNavigationServesShell ==
    \A i \in Navigations :
        (/\ Answered(i)
         /\ fetches[i].netSettled = "rejected"
         /\ \E url \in {"/index.html", "/"} : CachesMatch(cacheStorage, url) # Undefined)
            => /\ fetches[i].pc = "responded"
               /\ fetches[i].response.kind = "cache"
               /\ fetches[i].response.url \in {"/index.html", "/"}

\* C8: a request that is no navigation and whose response is in the cache is
\* answered with the cached response, and no network request is issued for it.
C8_CachedAssetNeverFetched ==
    \A i \in Others :
        CachesMatch(cacheStorage, fetches[i].request.url) # Undefined
            => /\ fetches[i].netRequests = 0
               /\ fetches[i].pc \in {"match", "responded"}
               /\ fetches[i].pc = "responded"
                     => fetches[i].response = CachesMatch(cacheStorage, fetches[i].request.url)

\* A cached asset was requested and answered from the cache.
C8_Witness ==
    \E i \in Others :
        /\ fetches[i].pc = "responded"
        /\ fetches[i].response = CachedResponse(CACHE_NAME, "/App.tsx")

\* C9: a navigation whose network fetch succeeded is answered with the network
\* response, whether or not a shell document is cached, and a navigation looks
\* into the cache only after its network fetch has failed.
C9_NavigationIsNetworkFirst ==
    \A i \in Navigations :
        /\ fetches[i].netRequests = 1
        /\ fetches[i].netSettled = "fulfilled"
              => /\ fetches[i].pc = "responded"
                 /\ fetches[i].response = NetworkResponse(fetches[i].request.url)
                 /\ fetches[i].cacheLookups = 0
        /\ fetches[i].cacheLookups > 0 => fetches[i].netSettled = "rejected"

\* A navigation was answered from the network while the index document was cached.
C9_Witness ==
    \E i \in Navigations :
        /\ fetches[i].netSettled = "fulfilled"
        /\ fetches[i].pc = "responded"
        /\ CachesMatch(cacheStorage, "/index.html") # Undefined

\* C10: whatever subset of the manifest URLs fails to be fetched, all of them
\* included, the install phase completes: the worker becomes installed, not
\* redundant, and the failure is logged.
C10_InstallToleratesFailures ==
    [][ installPc = "addAll"
          => \A failed \in SUBSET Range(URLS_TO_CACHE) :
                AddAllSettle(failed)
                   => /\ swState' = "installed"
                      /\ failed # {} => swLog' = Append(swLog, "Cache addAll failed") ]_vars

\* The manifest could not be cached, and the worker went on to activate.
C10_Witness ==
    /\ swLog = <<"Cache addAll failed">>
    /\ swState = "activated"
    /\ \A i \in 1..Len(cacheStorage) : "/index.tsx" \notin cacheStorage[i].entries

\* C16: a navigation whose network fetch failed is answered with the cached index
\* document when there is one, and otherwise with the cached root document when
\* there is one.
C16_FallbackIndexElseRoot ==
    \A i \in Navigations :
        (Answered(i) /\ fetches[i].netSettled = "rejected")
            => /\ CachesMatch(cacheStorage, "/index.html") # Undefined
                     => fetches[i].response = CachesMatch(cacheStorage, "/index.html")
               /\ (/\ CachesMatch(cacheStorage, "/index.html") = Undefined
                   /\ CachesMatch(cacheStorage, "/") # Undefined)
                     => fetches[i].response = CachesMatch(cacheStorage, "/")

\* C17: clients.claim() has been called only if no container of a name other than
\* the current one exists: no client is claimed while a stale container remains.
C17_ClaimAfterStaleDeleted ==
    claimed => \A k \in 1..Len(cacheStorage) : cacheStorage[k].name = CACHE_NAME

\* C18: a navigation whose network fetch failed while neither the index document nor
\* the root is cached fails with a network error; what an interception answers with
\* is only ever the network's response or a response the cache holds.
C18_NoShellMeansNetworkError ==
    /\ \A i \in Navigations :
          (/\ Answered(i)
           /\ fetches[i].netSettled = "rejected"
           /\ CachesMatch(cacheStorage, "/index.html") = Undefined
           /\ CachesMatch(cacheStorage, "/") = Undefined)
              => (fetches[i].pc = "failed" /\ fetches[i].response = NetworkError)
    /\ \A i \in 1..Len(fetches) :
          \/ fetches[i].response \in {NoResponse, NetworkError,
                                       NetworkResponse(fetches[i].request.url)}
          \/ fetches[i].response = CachesMatch(cacheStorage, fetches[i].response.url)

\* A navigation failed offline although the cache held other responses.
C18_Witness ==
    \E i \in Navigations :
        /\ fetches[i].pc = "failed"
        /\ fetches[i].netSettled = "rejected"
        /\ fetches[i].response = NetworkError
        /\ CachesMatch(cacheStorage, "/index.html") = Undefined
        /\ CachesMatch(cacheStorage, "/") = Undefined
        /\ CachesMatch(cacheStorage, "/App.tsx") # Undefined

\* The step interception j is waiting for can be taken.
CanProceed(j) ==
    /\ fetches[j].pc = "match" => ENABLED MatchResolve(j)
    /\ fetches[j].pc = "network" => (ENABLED NetworkResolve(j) /\ ENABLED NetworkReject(j))
    /\ fetches[j].pc = "fallback" => ENABLED FallbackResolve(j)

\* C19: while the network fetch of a navigation is pending the navigation has no
\* response and has looked nothing up in the cache, whatever the cache holds; nothing
\* but the settling of that fetch changes it, so it stays unanswered for as long as
\* the fetch does not settle; and meanwhile every other interception can take its
\* own next step.
C19_PendingNavigationStaysUnanswered ==
    /\ [](\A i \in Navigations :
            fetches[i].netSettled = "no"
               => /\ fetches[i].pc = "network"
                  /\ fetches[i].response = NoResponse
                  /\ fetches[i].cacheLookups = 0
                  /\ \A j \in 1..Len(fetches) : j # i => CanProceed(j))
    /\ [][ \A i \in Navigations :
              (fetches[i].netSettled = "no" /\ fetches'[i] # fetches[i])
                 => fetches'[i].netSettled # "no" ]_vars

\* A navigation is still waiting for the network, with the index document cached,
\* while an interception that came after it has been answered.
C19_Witness ==
    \E i \in Navigations :
        /\ fetches[i].netSettled = "no"
        /\ fetches[i].response = NoResponse
        /\ CachesMatch(cacheStorage, "/index.html") # Undefined
        /\ \E j \in 1..Len(fetches) : j > i /\ fetches[j].pc = "responded"

\* The URLs the container of the current name holds a response for.
CurrentEntries(cs) == UNION {cs[k].entries : k \in {j \in 1..Len(cs) : cs[j].name = CACHE_NAME}}

\* C11: no step of a fetch interception (its event, the settling of its network
\* request or of its cache lookups) changes any container of CacheStorage, and the
\* entries of the container of the current name change only while install populates it.
C11_FetchNeverWritesCache ==
    [][ /\ fetches' # fetches => cacheStorage' = cacheStorage
        /\ CurrentEntries(cacheStorage') # CurrentEntries(cacheStorage) => installPc = "addAll"
      ]_vars

\* An asset that is not cached was fetched from the network and delivered, and a
\* navigation was answered from the network: the cache still holds neither.
C11_Witness ==
    /\ \E i \in Others :
          /\ fetches[i].response = NetworkResponse("/logo.png")
          /\ CachesMatch(cacheStorage, "/logo.png") = Undefined
    /\ \E i \in Navigations :
          /\ fetches[i].response = NetworkResponse("/")
          /\ CachesMatch(cacheStorage, "/") = Undefined

\* C28: when the install's cache.addAll settles, the container of the current name
\* has gained a response for every manifest URL, if none of them failed, and
\* otherwise CacheStorage is exactly as it was: an install that fails on some URL
\* stores the response of no URL.
C28_InstallIsAllOrNothing ==
    [][ installPc = "addAll"
          => \A failed \in SUBSET Range(URLS_TO_CACHE) :
                AddAllSettle(failed)
                   => IF failed = {}
                      THEN /\ CurrentEntries(cacheStorage')
                                = CurrentEntries(cacheStorage) \cup Range(URLS_TO_CACHE)
                           /\ swLog' = swLog
                      ELSE cacheStorage' = cacheStorage ]_vars

\* One install failed and left the container it had just created empty.
C28_Witness ==
    /\ installPc = "done"
    /\ swLog # <<>>
    /\ CACHE_NAME \in ContainerNames(cacheStorage)
    /\ CurrentEntries(cacheStorage) = {}
    /\ Len(cacheStorage) = 3

====
